---- MODULE Spec2Model ----
(***************************************************************************)
(* Thumbnail ingestion service (NumberSixteen/Thumbnail).                  *)
(*                                                                         *)
(* src/app.js holds three snapshots of the service, each with its own      *)
(* POST /thumbnail handler:                                                *)
(*   - the freeze variant      (src/app.js lines   1..200), SpecFreeze     *)
(*   - the classifier variant  (src/app.js lines 202..395), SpecClassifier *)
(*   - the webhook variant     (src/app.js lines 397..557), SpecWebhook    *)
(* Every handler is an async function on node's single-threaded event      *)
(* loop: the code between two awaits runs without interruption, so each    *)
(* action below is the code from one await to the next.                    *)
(***************************************************************************)
EXTENDS Integers, Sequences, FiniteSets, TLC

(***************************************************************************)
(* Bounds of the model.                                                    *)
(***************************************************************************)
\* total number of submissions an arbitrary client makes
MaxSubs == 3
\* total number of submissions the clients of one stream make (SpecRace)
MaxRaceSubs == 4
\* number of handlers that may be between their first await and their response
MaxInFlight == 2
\* number of times the wall clock advances
MaxTicks == 1
\* milliseconds the wall clock advances per tick
TickMs == 1500
\* the scripted client's timestamps are multiples of 1000 up to 1000 * MaxTsK
MaxTsK == 5
\* number of submissions the client of the quality variant makes
MaxQualitySubs == 2
\* number of submissions the clients of SpecLive make
MaxLiveSubs == 2

\* milliseconds per second: the divisor of src/app.js lines 121 and 146
MsPerSec == 1000

VARIABLES
    now,            \* Date.now(), in milliseconds
    subs,           \* number of submissions received so far
    reqs,           \* freeze variant: the handler invocations (locals and position)
    lastFrames,     \* freeze variant: Map lastKey -> last perceptual hash
    freezeState,    \* freeze variant: Map lastKey -> freeze start time (ms)
    freezeCounter,  \* thumbnails_freeze_total{streamId,feedId}
    freezeActive,   \* thumbnail_freeze_active{streamId,feedId}
    freezeDuration, \* thumbnail_freeze_duration_seconds{streamId,feedId}: observations
    okCounter,      \* thumbnails_ok_total{streamId,feedId}
    latestGauge,    \* thumbnail_latest_timestamp_seconds{streamId,feedId}
    trace,          \* scripted client only: the freeze detector's calls, in order
    blackCounter,   \* thumbnails_black_total{feedId,streamId}
    corruptCounter, \* thumbnails_corrupt_total{feedId,streamId}
    logStore,       \* the objects logs/<date>.json of the bucket: logKey -> entries
    logCalls,       \* number of logResult calls that have returned
    alerts,         \* number of POSTs issued to the Power Automate webhook
    hook            \* whether the webhook URL is configured (process.env)

\* the state only the freeze variant has
freezeVars == <<lastFrames, freezeState, freezeCounter, freezeActive,
                freezeDuration, latestGauge, trace>>

\* the state only the classifier and webhook variants have
statusVars == <<blackCounter, corruptCounter, logStore, logCalls, alerts, hook>>

(***************************************************************************)
(* JavaScript Map / labelled metric as a function on the keys it holds.    *)
(***************************************************************************)
EmptyMap == [k \in {} |-> 0]

Has(m, k) == k \in DOMAIN m

Put(m, k, v) == [x \in (DOMAIN m) \cup {k} |-> IF x = k THEN v ELSE m[x]]

Del(m, k) == [x \in (DOMAIN m) \ {k} |-> m[x]]

\* value of a counter sample; a label set never incremented has no sample
Val(m, k) == IF k \in DOMAIN m THEN m[k] ELSE 0

\* Counter.inc(labels)
Inc(m, k) == Put(m, k, Val(m, k) + 1)

\* Histogram.observe(labels, v): the observations made, in order
Observe(m, k, v) == Put(m, k, IF k \in DOMAIN m THEN Append(m[k], v) ELSE <<v>>)

Obs(m, k) == IF k \in DOMAIN m THEN m[k] ELSE <<>>

\* a || b on strings and numbers: "" and 0 (and an absent value) are falsy
OrElseStr(a, b) == IF a = "" THEN b ELSE a

OrElseNum(a, b) == IF a = 0 THEN b ELSE a

\* Math.floor(a / b) for a >= 0, b > 0
Floor(a, b) == a \div b

(***************************************************************************)
(* Inputs of the freeze variant.                                           *)
(***************************************************************************)
\* Content-Type of the request: req.is("application/json"), req.is("image/jpeg")
CTypes == {"json", "jpeg", "other"}

\* (streamId, feedId) as sent ("" would be an absent id). The first two differ
\* as pairs and agree on `${streamId}:${feedId}`.
IdInputs == {<<"s", "f:f">>, <<"s:f", "f">>, <<"t", "f">>}

\* timestamps as sent, in milliseconds; 0 is an absent (falsy) timestamp
TsInputs == {0, 1000}

\* image payloads: two decodable frames with different content, and bytes
\* that are no image
Buffers == {"frameA", "frameB", "junk"}

\* SpecRace: the clients of one lastKey, three different decodable frames
RaceIds == {<<"s", "f:f">>, <<"s:f", "f">>}

RaceBuffers == {"frameA", "frameB", "frameC"}

\* mutant: bytes that are no image hash to the empty string instead of rejecting
hashImageNeverRejects(buffer) ==
    CASE buffer = "frameA" -> [ok |-> TRUE, hash |-> "hashA"]
      [] buffer = "frameB" -> [ok |-> TRUE, hash |-> "hashB"]
      [] buffer = "frameC" -> [ok |-> TRUE, hash |-> "hashC"]
      [] OTHER -> [ok |-> TRUE, hash |-> ""]

\* hashImage(buffer): Jimp.read rejects for bytes that are no image,
\* otherwise the perceptual hash of the decoded image
hashImage(buffer) ==
    CASE buffer = "frameA" -> [ok |-> TRUE, hash |-> "hashA"]
      [] buffer = "frameB" -> [ok |-> TRUE, hash |-> "hashB"]
      [] buffer = "frameC" -> [ok |-> TRUE, hash |-> "hashC"]
      [] OTHER -> [ok |-> FALSE, hash |-> ""]

\* const lastKey = `${streamId}:${feedId}`
LastKey(streamId, feedId) == streamId \o ":" \o feedId

\* metric labels { streamId, feedId }
Labels(streamId, feedId) == <<streamId, feedId>>

\* the decimal digits of n, at least two (three) of them, as toISOString pads
DigitChars == <<"0", "1", "2", "3", "4", "5", "6", "7", "8", "9">>

Digits2(n) == DigitChars[((n \div 10) % 10) + 1] \o DigitChars[(n % 10) + 1]

Digits3(n) == DigitChars[((n \div 100) % 10) + 1] \o Digits2(n)

\* new Date(ms).toISOString() for an instant of 1970-01-01 (0 <= ms < one day)
ToISOString(ms) ==
    "1970-01-01T" \o Digits2((ms \div 3600000) % 24) \o ":"
        \o Digits2((ms \div 60000) % 60) \o ":"
        \o Digits2((ms \div MsPerSec) % 60) \o "."
        \o Digits3(ms % MsPerSec) \o "Z"

\* const key = `${streamId}/${feedId}/${new Date(parseInt(timestamp, 10)).toISOString()}.jpg`
FreezeKey(streamId, feedId, timestamp) ==
    streamId \o "/" \o feedId \o "/" \o ToISOString(timestamp) \o ".jpg"

Slots == 1..MaxInFlight

\* locals of one handler invocation; after the response only what the
\* response carries is kept (status, streamId and feedId of the key, freeze).
\* fault names the metric call of this invocation that threw, if one did.
IdleReq ==
    [pc |-> "idle", streamId |-> "", feedId |-> "", timestamp |-> 0,
     buffer |-> "", isFreeze |-> FALSE, branch |-> "none", prevHash |-> "",
     peers |-> {}, resp |-> 0, fault |-> "none", key |-> ""]

Free == {i \in Slots : reqs[i].pc \in {"idle", "done"}}

(***************************************************************************)
(* POST /thumbnail, freeze variant: from the request to the first await.   *)
(***************************************************************************)
\* mutant: the final else of the dispatch is missing, so any other content
\* type is handled as a raw JPEG
RejectedJsonOnly(ctype, hasThumbnail) == ctype = "json" /\ ~hasThumbnail

\* the 400 answers of the content-type dispatch
Rejected(ctype, hasThumbnail) ==
    \/ ctype = "json" /\ ~hasThumbnail
    \/ ctype = "other"

\* feedId / streamId / timestamp after the defaults of either branch
FeedIdOf(ctype, f) == IF ctype = "json" THEN OrElseStr(f, "unknown") ELSE OrElseStr(f, "testfeed")

StreamIdOf(ctype, s) == IF ctype = "json" THEN OrElseStr(s, "unknown") ELSE OrElseStr(s, "teststream")

TimestampOf(t, clock) == OrElseNum(t, clock)

Receive(i, ctype, hasThumbnail, ids, t, buffer) ==
    /\ subs' = subs + 1
    /\ IF Rejected(ctype, hasThumbnail)
       THEN reqs' = [reqs EXCEPT ![i] = [IdleReq EXCEPT !.pc = "done", !.resp = 400]]
       ELSE reqs' = [reqs EXCEPT ![i] =
                [IdleReq EXCEPT !.pc = "hashing",
                                !.streamId = StreamIdOf(ctype, ids[1]),
                                !.feedId = FeedIdOf(ctype, ids[2]),
                                !.timestamp = TimestampOf(t, now),
                                !.buffer = buffer,
                                !.key = FreezeKey(StreamIdOf(ctype, ids[1]),
                                                  FeedIdOf(ctype, ids[2]),
                                                  TimestampOf(t, now))]]
    /\ UNCHANGED <<now, lastFrames, freezeState, freezeCounter, freezeActive,
                   freezeDuration, okCounter, latestGauge>>
    /\ UNCHANGED statusVars

(***************************************************************************)
(* The freeze detection block: runs when hashImage settles, up to the      *)
(* await of s3.putObject.                                                  *)
(***************************************************************************)
\* which arm of the if/else of lines 104..127 runs
Branch(lf, fs, lastKey, newHash) ==
    IF ~Has(lf, lastKey) THEN "first"
    ELSE IF newHash = lf[lastKey]
         THEN (IF ~Has(fs, lastKey) THEN "start" ELSE "repeat")
         ELSE (IF Has(fs, lastKey) THEN "end" ELSE "steady")

\* mutant: the freeze is reported on the transition only
IsFreezeOnTransitionOnly(branch) == branch = "start"

\* isFreeze = true in the arm newHash === prevHash
IsFreezeOf(branch) == branch \in {"start", "repeat"}

\* freezeCounter.inc in the arm newHash === prevHash
FreezeCounterAfter(fc, labels, branch) ==
    IF branch \in {"start", "repeat"} THEN Inc(fc, labels) ELSE fc

\* mutant: the timer is restarted by every repeated frame
FreezeStateRestarted(fs, lastKey, branch, clock) ==
    CASE branch \in {"start", "repeat"} -> Put(fs, lastKey, clock)
      [] branch = "end" -> Del(fs, lastKey)
      [] OTHER -> fs

\* mutant: the timer is not cleared when the freeze ends
FreezeStateKept(fs, lastKey, branch, clock) ==
    CASE branch = "start" -> Put(fs, lastKey, clock)
      [] OTHER -> fs

\* freezeState.set(lastKey, Date.now()) / freezeState.delete(lastKey)
FreezeStateAfter(fs, lastKey, branch, clock) ==
    CASE branch = "start" -> Put(fs, lastKey, clock)
      [] branch = "end" -> Del(fs, lastKey)
      [] OTHER -> fs

\* mutant: the gauge is not reset when the freeze ends
FreezeActiveSticky(fa, labels, branch) ==
    CASE branch = "start" -> Put(fa, labels, 1)
      [] OTHER -> fa

\* freezeActive.set(labels, 1) / freezeActive.set(labels, 0)
FreezeActiveAfter(fa, labels, branch) ==
    CASE branch = "start" -> Put(fa, labels, 1)
      [] branch = "end" -> Put(fa, labels, 0)
      [] OTHER -> fa

\* mutant: the duration is left in milliseconds
DurationInMs(clock, started) == [num |-> clock - started, den |-> 1]

\* duration = (Date.now() - started) / 1000, kept as the fraction num/den
Duration(clock, started) == [num |-> clock - started, den |-> MsPerSec]

\* freezeDuration.observe(labels, duration)
FreezeDurationAfter(fd, fs, labels, lastKey, branch, clock) ==
    IF branch = "end"
    THEN Observe(fd, labels, Duration(clock, fs[lastKey]))
    ELSE fd

\* mutant: the stored hash is left alone while the key is known
LastFramesKeptIfKnown(lf, lastKey, newHash) ==
    IF Has(lf, lastKey) THEN lf ELSE Put(lf, lastKey, newHash)

\* lastFrames.set(lastKey, newHash)
LastFramesAfter(lf, lastKey, newHash) == Put(lf, lastKey, newHash)

Detect(i) ==
    /\ reqs[i].pc = "hashing"
    /\ LET r == reqs[i]
           h == hashImage(r.buffer)
           lastKey == LastKey(r.streamId, r.feedId)
           labels == Labels(r.streamId, r.feedId)
           branch == Branch(lastFrames, freezeState, lastKey, h.hash)
           waiting == {j \in Slots \ {i} : reqs[j].pc = "hashing"}
       IN IF h.ok
          THEN /\ reqs' = [reqs EXCEPT ![i] =
                      [r EXCEPT !.pc = "uploading",
                                !.isFreeze = IsFreezeOf(branch),
                                !.branch = branch,
                                !.prevHash = IF Has(lastFrames, lastKey)
                                             THEN lastFrames[lastKey] ELSE "",
                                !.peers = waiting]]
               /\ freezeCounter' = FreezeCounterAfter(freezeCounter, labels, branch)
               /\ freezeState' = FreezeStateAfter(freezeState, lastKey, branch, now)
               /\ freezeActive' = FreezeActiveAfter(freezeActive, labels, branch)
               /\ freezeDuration' = FreezeDurationAfter(freezeDuration, freezeState,
                                                        labels, lastKey, branch, now)
               /\ lastFrames' = LastFramesAfter(lastFrames, lastKey, h.hash)
          ELSE \* catch (err): "Freeze detection failed"
               /\ reqs' = [reqs EXCEPT ![i] =
                      [r EXCEPT !.pc = "uploading", !.branch = "failed",
                                !.peers = waiting]]
               /\ UNCHANGED <<lastFrames, freezeState, freezeCounter,
                              freezeActive, freezeDuration>>
    /\ UNCHANGED <<now, subs, okCounter, latestGauge>>
    /\ UNCHANGED statusVars

(***************************************************************************)
(* s3.putObject settles: the counters and the response, or the catch.      *)
(***************************************************************************)
\* mutant: the gauge takes the submission's timestamp
LatestGaugeFromTimestamp(lg, labels, timestamp, clock) ==
    Put(lg, labels, Floor(timestamp, MsPerSec))

\* latestGauge.set(labels, Math.floor(Date.now() / 1000))
LatestGaugeAfter(lg, labels, timestamp, clock) == Put(lg, labels, Floor(clock, MsPerSec))

Uploaded(i, stored) ==
    /\ reqs[i].pc = "uploading"
    /\ LET r == reqs[i]
           labels == Labels(r.streamId, r.feedId)
       IN IF stored
          THEN /\ okCounter' = Inc(okCounter, labels)
               /\ latestGauge' = LatestGaugeAfter(latestGauge, labels, r.timestamp, now)
               /\ reqs' = [reqs EXCEPT ![i] =
                      [IdleReq EXCEPT !.pc = "done", !.resp = 200,
                                      !.streamId = r.streamId, !.feedId = r.feedId,
                                      !.isFreeze = r.isFreeze]]
          ELSE /\ reqs' = [reqs EXCEPT ![i] = [IdleReq EXCEPT !.pc = "done", !.resp = 500]]
               /\ UNCHANGED <<okCounter, latestGauge>>
    /\ UNCHANGED <<now, subs, lastFrames, freezeState, freezeCounter,
                   freezeActive, freezeDuration, trace>>
    /\ UNCHANGED statusVars

\* the wall clock advances
Tick ==
    /\ now < MaxTicks * TickMs
    /\ now' = now + TickMs
    /\ UNCHANGED <<subs, reqs, okCounter>>
    /\ UNCHANGED freezeVars
    /\ UNCHANGED statusVars

(***************************************************************************)
(* SpecFreeze: any client of the freeze variant. A handler that has        *)
(* answered leaves its slot to the next request.                           *)
(***************************************************************************)
Arrive ==
    \E i \in Free :
        /\ subs < MaxSubs
        /\ \A j \in Free : i <= j
        /\ \E ctype \in CTypes, hasThumbnail \in BOOLEAN, ids \in IdInputs,
              t \in TsInputs, buffer \in Buffers :
                Receive(i, ctype, hasThumbnail, ids, t, buffer)
        /\ UNCHANGED trace

HashSettles == \E i \in Slots : Detect(i) /\ UNCHANGED trace

UploadSettles == \E i \in Slots, stored \in BOOLEAN : Uploaded(i, stored)

InitFreeze ==
    /\ now = 0
    /\ subs = 0
    /\ reqs = [i \in Slots |-> IdleReq]
    /\ lastFrames = EmptyMap
    /\ freezeState = EmptyMap
    /\ freezeCounter = EmptyMap
    /\ freezeActive = EmptyMap
    /\ freezeDuration = EmptyMap
    /\ okCounter = EmptyMap
    /\ latestGauge = EmptyMap
    /\ trace = <<>>
    /\ blackCounter = EmptyMap
    /\ corruptCounter = EmptyMap
    /\ logStore = EmptyMap
    /\ logCalls = 0
    /\ alerts = 0
    /\ hook = FALSE

vars == <<now, subs, reqs, lastFrames, freezeState, freezeCounter, freezeActive,
          freezeDuration, okCounter, latestGauge, trace, blackCounter,
          corruptCounter, logStore, logCalls, alerts, hook>>

NextFreeze == Arrive \/ HashSettles \/ UploadSettles \/ Tick

SpecFreeze == InitFreeze /\ [][NextFreeze]_vars

(***************************************************************************)
(* SpecRace: concurrent clients that all submit for one lastKey.           *)
(***************************************************************************)
ArriveRace ==
    \E i \in Free :
        /\ subs < MaxRaceSubs
        /\ \A j \in Free : i <= j
        /\ \E ids \in RaceIds, t \in TsInputs \ {0}, buffer \in RaceBuffers :
                Receive(i, "json", TRUE, ids, t, buffer)
        /\ UNCHANGED trace

NextRace == ArriveRace \/ HashSettles \/ UploadSettles \/ Tick

SpecRace == InitFreeze /\ [][NextRace]_vars

(***************************************************************************)
(* SpecSeq: one client that submits the frames of Script for one key, each *)
(* after the previous one was answered, with strictly increasing           *)
(* timestamps. trace records each call of the freeze detector: the         *)
(* submission's timestamp, Date.now() when the block ran, and the state    *)
(* the block left for the key.                                             *)
(***************************************************************************)
Script == <<"frameA", "frameA", "frameA", "frameB">>

ScriptIds == <<"s", "f:f">>

ScriptTs == {MsPerSec * k : k \in 1..MaxTsK}

ArriveScript ==
    /\ subs < Len(Script)
    /\ Free = Slots
    /\ \E t \in ScriptTs :
        /\ trace # <<>> => t > trace[Len(trace)].ts
        /\ Receive(1, "json", TRUE, ScriptIds, t, Script[subs + 1])
    /\ UNCHANGED trace

DetectLogged ==
    \E i \in Slots :
        /\ Detect(i)
        /\ LET r == reqs[i]
               lastKey == LastKey(r.streamId, r.feedId)
               labels == Labels(r.streamId, r.feedId)
           IN trace' = Append(trace,
                  [ts |-> r.timestamp,
                   at |-> now,
                   isFreeze |-> reqs'[i].isFreeze,
                   frozen |-> Has(freezeState', lastKey),
                   frozenSince |-> IF Has(freezeState', lastKey)
                                   THEN freezeState'[lastKey] ELSE 0,
                   active |-> IF Has(freezeActive', labels)
                              THEN freezeActive'[labels] ELSE 0,
                   total |-> Val(freezeCounter', labels),
                   observed |-> Obs(freezeDuration', labels)])

NextSeq == ArriveScript \/ DetectLogged \/ UploadSettles \/ Tick

SpecSeq == InitFreeze /\ [][NextSeq]_vars

(***************************************************************************)
(* SpecFault: the freeze variant when a call of the metrics library may    *)
(* throw. In the detection block the throw is caught by the catch of line  *)
(* 130, which skips the rest of the block; after the archive write it is   *)
(* caught by the catch of line 150, which answers 500.                     *)
(***************************************************************************)
\* the metric calls of the detection block, and those after the archive write
DetectMetrics == {"freezeCounter", "freezeActive", "freezeDuration"}

UploadMetrics == {"okCounter", "latestGauge"}

\* the arms of the detection block that make the call
CallsMetric(branch, failing) ==
    \/ failing = "freezeCounter" /\ branch \in {"start", "repeat"}
    \/ failing = "freezeActive" /\ branch \in {"start", "end"}
    \/ failing = "freezeDuration" /\ branch = "end"

\* hashImage resolved and the call `failing` of the detection block throws:
\* the statements before it have run, those after it (lastFrames.set among
\* them) have not
DetectMetricFails(i, failing) ==
    /\ reqs[i].pc = "hashing"
    /\ LET r == reqs[i]
           h == hashImage(r.buffer)
           lastKey == LastKey(r.streamId, r.feedId)
           labels == Labels(r.streamId, r.feedId)
           branch == Branch(lastFrames, freezeState, lastKey, h.hash)
       IN /\ h.ok
          /\ CallsMetric(branch, failing)
          /\ reqs' = [reqs EXCEPT ![i] =
                 [r EXCEPT !.pc = "uploading",
                           !.isFreeze = IsFreezeOf(branch),
                           !.branch = branch,
                           !.prevHash = lastFrames[lastKey],
                           !.fault = failing]]
          /\ freezeCounter' = IF failing = "freezeCounter" THEN freezeCounter
                              ELSE FreezeCounterAfter(freezeCounter, labels, branch)
          /\ freezeDuration' = IF failing = "freezeDuration" THEN freezeDuration
                               ELSE FreezeDurationAfter(freezeDuration, freezeState,
                                                        labels, lastKey, branch, now)
          /\ freezeState' = IF failing = "freezeActive"
                            THEN FreezeStateAfter(freezeState, lastKey, branch, now)
                            ELSE freezeState
    /\ UNCHANGED <<now, subs, lastFrames, freezeActive, okCounter, latestGauge, trace>>
    /\ UNCHANGED statusVars

\* s3.putObject resolved and okCounter.inc or latestGauge.set throws
UploadedMetricFails(i, failing) ==
    /\ reqs[i].pc = "uploading"
    /\ LET r == reqs[i]
           labels == Labels(r.streamId, r.feedId)
       IN /\ okCounter' = IF failing = "latestGauge" THEN Inc(okCounter, labels)
                          ELSE okCounter
          /\ reqs' = [reqs EXCEPT ![i] =
                 [IdleReq EXCEPT !.pc = "done", !.resp = 500, !.fault = failing]]
    /\ UNCHANGED <<now, subs, lastFrames, freezeState, freezeCounter,
                   freezeActive, freezeDuration, latestGauge, trace>>
    /\ UNCHANGED statusVars

ArriveFault ==
    \E i \in Free :
        /\ subs < MaxSubs
        /\ \A j \in Free : i <= j
        /\ \E buffer \in {"frameA", "frameB"} :
                Receive(i, "json", TRUE, <<"t", "f">>, 1000, buffer)
        /\ UNCHANGED trace

DetectFaults == \E i \in Slots, failing \in DetectMetrics : DetectMetricFails(i, failing)

UploadFaults == \E i \in Slots, failing \in UploadMetrics : UploadedMetricFails(i, failing)

NextFault ==
    \/ ArriveFault
    \/ HashSettles
    \/ UploadSettles
    \/ DetectFaults
    \/ UploadFaults
    \/ Tick

SpecFault == InitFreeze /\ [][NextFault]_vars

(***************************************************************************)
(* SpecDispatch: clients of the freeze variant that send every request     *)
(* shape for one key; trace holds the latest request as it was sent.       *)
(***************************************************************************)
ArriveLogged ==
    \E i \in Free :
        /\ subs < MaxSubs
        /\ \A j \in Free : i <= j
        /\ \E ctype \in CTypes, hasThumbnail \in BOOLEAN, buffer \in {"frameA", "frameB"} :
            /\ Receive(i, ctype, hasThumbnail, <<"t", "f">>, 1000, buffer)
            /\ trace' = <<[slot |-> i, ctype |-> ctype, hasThumbnail |-> hasThumbnail]>>

NextDispatch == ArriveLogged \/ HashSettles \/ UploadSettles \/ Tick

SpecDispatch == InitFreeze /\ [][NextDispatch]_vars

(***************************************************************************)
(* SpecPairs: one client that submits, one request after the other, for    *)
(* the two pairs of RaceIds; trace records each call of the freeze         *)
(* detector with the pair it was made for.                                 *)
(***************************************************************************)
ArrivePairs ==
    /\ subs < MaxSubs
    /\ Free = Slots
    /\ \E ids \in RaceIds, buffer \in {"frameA", "frameB"} :
            Receive(1, "json", TRUE, ids, 1000, buffer)
    /\ UNCHANGED trace

DetectByPair ==
    \E i \in Slots :
        /\ Detect(i)
        /\ trace' = Append(trace,
               [streamId |-> reqs[i].streamId,
                feedId |-> reqs[i].feedId,
                hash |-> hashImage(reqs[i].buffer).hash,
                prevHash |-> reqs'[i].prevHash,
                isFreeze |-> reqs'[i].isFreeze])

NextPairs == ArrivePairs \/ DetectByPair \/ UploadSettles \/ Tick

SpecPairs == InitFreeze /\ [][NextPairs]_vars

(***************************************************************************)
(* SpecOrder: concurrent clients of one key; trace holds, in the order of  *)
(* their arrival, the handlers that await hashImage.                       *)
(***************************************************************************)
\* the sequence s without its elements equal to x
RECURSIVE Without(_, _)
Without(s, x) ==
    IF s = <<>> THEN <<>>
    ELSE IF s[1] = x THEN Without(Tail(s), x)
    ELSE <<s[1]>> \o Without(Tail(s), x)

ArriveOrdered ==
    \E i \in Free :
        /\ subs < MaxSubs
        /\ \A j \in Free : i <= j
        /\ \E buffer \in {"frameA", "frameB"} :
                Receive(i, "json", TRUE, <<"t", "f">>, 1000, buffer)
        /\ trace' = Append(trace, i)

DetectOrdered ==
    \E i \in Slots :
        /\ Detect(i)
        /\ trace' = Without(trace, i)

NextOrder == ArriveOrdered \/ DetectOrdered \/ UploadSettles \/ Tick

SpecOrder == InitFreeze /\ [][NextOrder]_vars

(***************************************************************************)
(* Properties of the freeze variant.                                       *)
(***************************************************************************)
\* the step in which handler i runs its freeze detection block
Detecting(i) == reqs[i].pc = "hashing" /\ reqs'[i].pc = "uploading"

\* the step in which handler i's archive write settles
Answering(i) == reqs[i].pc = "uploading" /\ reqs'[i].pc = "done"

HashOf(i) == hashImage(reqs[i].buffer)

KeyOf(i) == LastKey(reqs[i].streamId, reqs[i].feedId)

LabelsOf(i) == Labels(reqs[i].streamId, reqs[i].feedId)

\* two durations given as fractions are the same duration
SameDuration(a, b) == a.num * b.den = b.num * a.den

\* C1: a submission whose fingerprint is computed reports a freeze, and adds
\* exactly 1 to freeze_total of its labels, if and only if a fingerprint is
\* stored under its key and equals the new one (so never the first submission
\* of a key, and every repeated frame, not only the transition).
C1_FreezeIffStoredEqual ==
    [][\A i \in Slots :
        (Detecting(i) /\ HashOf(i).ok) =>
            LET stored == Has(lastFrames, KeyOf(i))
                          /\ lastFrames[KeyOf(i)] = HashOf(i).hash
            IN /\ reqs'[i].isFreeze <=> stored
               /\ Val(freezeCounter', LabelsOf(i))
                    = Val(freezeCounter, LabelsOf(i)) + (IF stored THEN 1 ELSE 0)
               /\ \A l \in (DOMAIN freezeCounter') \ {LabelsOf(i)} :
                    Val(freezeCounter', l) = Val(freezeCounter, l)]_vars

\* C1 witness: a repeated frame while frozen was reported and counted again
C1_Witness ==
    \E i \in Slots :
        /\ reqs[i].pc = "uploading"
        /\ reqs[i].branch = "repeat"
        /\ reqs[i].isFreeze
        /\ Val(freezeCounter, LabelsOf(i)) >= 2

\* C2: frozenSince of a key is set, and freeze_active set to 1, only by the
\* step from NOT_FROZEN to FROZEN (a fingerprint equal to the stored one while
\* frozenSince is unset); an equal fingerprint while FROZEN leaves it unchanged.
C2_FrozenSinceOnlyOnTransition ==
    [][/\ \A k \in DOMAIN freezeState' :
            (~Has(freezeState, k) \/ freezeState'[k] # freezeState[k]) =>
                /\ ~Has(freezeState, k)
                /\ \E i \in Slots :
                    /\ Detecting(i) /\ HashOf(i).ok /\ KeyOf(i) = k
                    /\ Has(lastFrames, k) /\ lastFrames[k] = HashOf(i).hash
                    /\ freezeState'[k] = now
                    /\ Has(freezeActive', LabelsOf(i))
                    /\ freezeActive'[LabelsOf(i)] = 1
       /\ \A l \in DOMAIN freezeActive' :
            (freezeActive'[l] = 1 /\ (~Has(freezeActive, l) \/ freezeActive[l] # 1)) =>
                \E i \in Slots :
                    /\ Detecting(i) /\ LabelsOf(i) = l
                    /\ ~Has(freezeState, KeyOf(i)) /\ Has(freezeState', KeyOf(i))
       /\ \A i \in Slots :
            (/\ Detecting(i) /\ HashOf(i).ok
             /\ Has(freezeState, KeyOf(i))
             /\ lastFrames[KeyOf(i)] = HashOf(i).hash) =>
                /\ Has(freezeState', KeyOf(i))
                /\ freezeState'[KeyOf(i)] = freezeState[KeyOf(i)]
                /\ freezeActive' = freezeActive]_vars

\* C2 witness: a repeated frame arrived later than the freeze began, and
\* frozenSince still holds the earlier time
C2_Witness ==
    \E i \in Slots :
        /\ reqs[i].pc = "uploading"
        /\ reqs[i].branch = "repeat"
        /\ Has(freezeState, KeyOf(i))
        /\ freezeState[KeyOf(i)] < now

\* C3: a fingerprint different from the stored one while frozenSince is set
\* makes exactly one observation of now - frozenSince (in seconds), clears
\* frozenSince and sets freeze_active to 0; while frozenSince is unset it
\* observes nothing, changes no gauge and reports no freeze.
C3_FreezeEnd ==
    [][\A i \in Slots :
        (/\ Detecting(i) /\ HashOf(i).ok
         /\ Has(lastFrames, KeyOf(i))
         /\ lastFrames[KeyOf(i)] # HashOf(i).hash) =>
            IF Has(freezeState, KeyOf(i))
            THEN /\ Obs(freezeDuration', LabelsOf(i))
                      = Append(Obs(freezeDuration, LabelsOf(i)),
                               [num |-> now - freezeState[KeyOf(i)], den |-> MsPerSec])
                 /\ \A l \in (DOMAIN freezeDuration') \ {LabelsOf(i)} :
                      Obs(freezeDuration', l) = Obs(freezeDuration, l)
                 /\ ~Has(freezeState', KeyOf(i))
                 /\ Has(freezeActive', LabelsOf(i))
                 /\ freezeActive'[LabelsOf(i)] = 0
                 /\ ~reqs'[i].isFreeze
            ELSE /\ freezeDuration' = freezeDuration
                 /\ freezeActive' = freezeActive
                 /\ freezeState' = freezeState
                 /\ ~reqs'[i].isFreeze]_vars

\* C3 witness: a freeze that lasted some time has ended and was observed
C3_Witness ==
    \E i \in Slots :
        /\ reqs[i].pc = "uploading"
        /\ reqs[i].branch = "end"
        /\ ~Has(freezeState, KeyOf(i))
        /\ Len(Obs(freezeDuration, LabelsOf(i))) = 1
        /\ Obs(freezeDuration, LabelsOf(i))[1].num > 0

\* what C4 says of the four calls, but for the observed duration
C4_Calls ==
    /\ ~trace[1].isFreeze /\ ~trace[1].frozen
    /\ trace[2].isFreeze /\ trace[2].frozen /\ trace[2].active = 1
    /\ trace[3].isFreeze /\ trace[3].frozen
    /\ trace[3].total = trace[2].total + 1
    /\ trace[3].frozenSince = trace[2].frozenSince
    /\ ~trace[4].isFreeze /\ ~trace[4].frozen /\ trace[4].active = 0
    /\ Len(trace[4].observed) = 1

\* C4 as stated: for the fingerprints [A, A, A, B] of one key with timestamps
\* t0 < t1 < t2 < t3, call 1 reports no freeze, call 2 starts the freeze, call 3
\* is still frozen (counted again, frozenSince unchanged), call 4 ends it, and
\* the histogram observes t3 - t1, the difference of the submissions' timestamps.
C4_ObservesTimestampDifference ==
    Len(trace) = Len(Script) =>
        /\ C4_Calls
        /\ SameDuration(trace[4].observed[1],
                        [num |-> trace[4].ts - trace[2].ts, den |-> MsPerSec])

\* C4 amended: as above, but the histogram observes the time between the runs
\* of the detection block of call 2 and of call 4 (Date.now() at either run),
\* in seconds.
C4_ObservesProcessingDifference ==
    Len(trace) = Len(Script) =>
        /\ C4_Calls
        /\ SameDuration(trace[4].observed[1],
                        [num |-> trace[4].at - trace[2].at, den |-> MsPerSec])

\* C4 witness: the four calls were made, the freeze lasted some time, and the
\* timestamps of calls 2 and 4 are further apart than their processing times
C4_Witness ==
    /\ Len(trace) = Len(Script)
    /\ trace[4].observed[1].num > 0
    /\ trace[4].ts - trace[2].ts # trace[4].at - trace[2].at

\* C5: whichever arm the freeze detection block takes, it leaves the
\* fingerprint of that call stored under the call's key.
C5_LastFingerprintStored ==
    [][\A i \in Slots :
        (Detecting(i) /\ HashOf(i).ok) =>
            /\ Has(lastFrames', KeyOf(i))
            /\ lastFrames'[KeyOf(i)] = HashOf(i).hash
            /\ reqs'[i].branch \in {"first", "start", "repeat", "end", "steady"}]_vars

\* C5 witness: a call that ended a freeze replaced the stored fingerprint
C5_Witness ==
    \E i \in Slots :
        /\ reqs[i].pc = "uploading"
        /\ reqs[i].branch = "end"
        /\ reqs[i].prevHash # HashOf(i).hash
        /\ lastFrames[KeyOf(i)] = HashOf(i).hash

\* observations made for the one key of SpecRace
RaceKey == "s:f:f"

RaceObserved(fd) == Len(Obs(fd, <<"s", "f:f">>)) + Len(Obs(fd, <<"s:f", "f">>))

\* C6: whatever the interleaving of the handlers of one key, a step adds at
\* most one freeze_duration_seconds observation, and only by clearing a
\* frozenSince that was set: one freeze episode is observed at most once.
C6_OneObservationPerEpisode ==
    [][RaceObserved(freezeDuration') # RaceObserved(freezeDuration) =>
        /\ RaceObserved(freezeDuration') = RaceObserved(freezeDuration) + 1
        /\ Has(freezeState, RaceKey)
        /\ ~Has(freezeState', RaceKey)]_vars

\* C6 witness: while the key was frozen two handlers were in flight with
\* fingerprints different from the stored one and from each other; the first
\* to run ended the freeze, the second found no freeze to end, and the
\* episode was observed once
C6_Witness ==
    \E i, j \in Slots :
        /\ i # j
        /\ reqs[i].pc = "uploading" /\ reqs[j].pc = "uploading"
        /\ KeyOf(i) = RaceKey /\ KeyOf(j) = RaceKey
        /\ j \in reqs[i].peers
        /\ reqs[i].branch = "end"
        /\ reqs[j].branch = "steady"
        /\ HashOf(j).hash # reqs[i].prevHash
        /\ HashOf(j).hash # HashOf(i).hash
        /\ RaceObserved(freezeDuration) = 1

\* C10 as stated: after a submission is processed the latest_timestamp_seconds
\* gauge of its labels is the submission's own timestamp, in seconds.
C10_GaugeIsSubmissionTimestamp ==
    [][\A i \in Slots :
        (Answering(i) /\ reqs'[i].resp = 200) =>
            /\ Has(latestGauge', LabelsOf(i))
            /\ latestGauge'[LabelsOf(i)] = Floor(reqs[i].timestamp, MsPerSec)]_vars

\* C10 amended: a submission whose archive write succeeded leaves the gauge of
\* its labels at floor(Date.now() / 1000) read when the write completed; one
\* whose archive write failed leaves every gauge unchanged.
C10_GaugeIsProcessingTime ==
    [][\A i \in Slots :
        Answering(i) =>
            IF reqs'[i].resp = 200
            THEN /\ Has(latestGauge', LabelsOf(i))
                 /\ latestGauge'[LabelsOf(i)] = Floor(now, MsPerSec)
                 /\ \A l \in (DOMAIN latestGauge') \ {LabelsOf(i)} :
                        Has(latestGauge, l) /\ latestGauge'[l] = latestGauge[l]
            ELSE latestGauge' = latestGauge]_vars

\* C10 witness: a submission was archived after the clock had advanced and
\* the gauge of its labels shows that time
C10_Witness ==
    \E i \in Slots :
        /\ reqs[i].pc = "done" /\ reqs[i].resp = 200
        /\ now >= MsPerSec
        /\ Has(latestGauge, LabelsOf(i))
        /\ latestGauge[LabelsOf(i)] = Floor(now, MsPerSec)

\* C11 as stated: an alert is dispatched for a submission if and only if it is
\* unhealthy; in the freeze variant, whose submissions carry no status, that is
\* if and only if the submission begins a freeze (NOT_FROZEN -> FROZEN). So a
\* submission that began a freeze and is answered has had its alert dispatched,
\* and alerts are dispatched for such submissions only.
C11_AlertIffUnhealthy ==
    [][/\ \A i \in Slots :
            (Answering(i) /\ reqs'[i].resp = 200 /\ reqs[i].branch = "start")
                => alerts' >= 1
       /\ alerts' # alerts =>
            \E i \in Slots : reqs[i].branch = "start" \/ reqs'[i].branch = "start"]_vars

\* C12: a submission whose bytes do not decode never reaches the freeze
\* comparison: its detection step reports isFreeze = false, leaves
\* lastFingerprint and frozenSince of every key and every freeze metric
\* unchanged, and hands the submission to the archive write.
C12_DecodeFailureFailsOpen ==
    [][\A i \in Slots :
        (reqs[i].pc = "hashing" /\ reqs'[i] # reqs[i] /\ reqs[i].buffer = "junk") =>
            /\ reqs'[i].pc = "uploading"
            /\ ~reqs'[i].isFreeze
            /\ lastFrames' = lastFrames
            /\ freezeState' = freezeState
            /\ freezeCounter' = freezeCounter
            /\ freezeActive' = freezeActive
            /\ freezeDuration' = freezeDuration]_vars

\* C12 witness: bytes that do not decode were submitted for a frozen key; the
\* key is still frozen with its fingerprint, and the submission awaits its
\* archive write
C12_Witness ==
    \E i \in Slots :
        /\ reqs[i].pc = "uploading"
        /\ reqs[i].buffer = "junk"
        /\ reqs[i].branch = "failed"
        /\ ~reqs[i].isFreeze
        /\ Has(freezeState, KeyOf(i))
        /\ Has(lastFrames, KeyOf(i))

\* C13 as stated: a metric call that throws while a submission is handled is
\* swallowed: the detection block still leaves the call's fingerprint stored
\* under its key, and a submission whose archive write succeeded is answered
\* with success, not with an error.
C13_MetricFailureSwallowed ==
    [][\A i \in Slots :
        /\ (reqs[i].pc = "hashing" /\ reqs'[i].pc = "uploading" /\ HashOf(i).ok) =>
                /\ Has(lastFrames', KeyOf(i))
                /\ lastFrames'[KeyOf(i)] = HashOf(i).hash
        /\ (Answering(i) /\ reqs'[i].fault \in UploadMetrics) =>
                reqs'[i].resp = 200]_vars

\* C14 as stated: a failed archive write is answered with a 5xx, but the
\* outcome of the notification call is never surfaced: once the archive write
\* succeeded and the notification was sent, the caller receives the success
\* response whether the notification call resolves or rejects, and no second
\* notification is sent.
C14_NotificationFailureNotSurfaced ==
    [][\A i \in Slots :
        (reqs[i].pc \in {"notifying", "wnotifying"} /\ reqs'[i].pc = "done") =>
            /\ reqs'[i].resp = 200
            /\ alerts' = alerts]_vars

\* the latest request was sent without a thumbnail in its JSON body, or with
\* a content type that is neither application/json nor image/jpeg
SentMalformed(sent) ==
    \/ sent.ctype = "other"
    \/ sent.ctype = "json" /\ ~sent.hasThumbnail

\* C15: a submission with a missing thumbnail payload or an unsupported
\* content type is answered 400 at once: no FreezeState entry is created or
\* changed, no metric is changed, the handler never reaches the archive write
\* and no alert is sent; the handlers in flight are not affected.
C15_MalformedRejected ==
    [][(subs' = subs + 1 /\ SentMalformed(trace'[1])) =>
        /\ reqs'[trace'[1].slot].pc = "done"
        /\ reqs'[trace'[1].slot].resp = 400
        /\ \A j \in Slots \ {trace'[1].slot} : reqs'[j] = reqs[j]
        /\ UNCHANGED <<lastFrames, freezeState, freezeCounter, freezeActive,
                       freezeDuration, okCounter, latestGauge, alerts>>]_vars

\* C15 witness: a malformed request for a frozen key was answered 400 and
\* the key is still frozen with its fingerprint
C15_Witness ==
    /\ trace # <<>>
    /\ SentMalformed(trace[1])
    /\ reqs[trace[1].slot].pc = "done"
    /\ reqs[trace[1].slot].resp = 400
    /\ Has(lastFrames, "t:f")
    /\ Has(freezeState, "t:f")
    /\ Val(freezeCounter, <<"t", "f">>) = 1

(***************************************************************************)
(* Image payloads of the classifier and webhook variants: whether the      *)
(* bytes decode (Jimp.read resolves) and the RGB pixels they hold.         *)
(***************************************************************************)
\* largest number of pixels of a payload
MaxPixels == 2

\* avg < 10 of isBlackFrame
BlackAvgThreshold == 10

\* red < 10 && green < 10 && blue < 10 of analyzeImage
BlackChannelCutoff == 10

\* milliseconds per day: the date part of toISOString()
MsPerDay == 86400000

Pixels == {<<0, 0, 0>>, <<9, 9, 9>>, <<10, 10, 10>>, <<9, 9, 200>>, <<255, 255, 255>>}

PixelSeqs == UNION {[1..n -> Pixels] : n \in 1..MaxPixels}

Images == [decodes : BOOLEAN, pixels : PixelSeqs]

\* the payloads the handlers are driven with: a dark frame, a bright frame,
\* and bytes that are no image
DarkImage == [decodes |-> TRUE, pixels |-> <<<<0, 0, 0>>>>]

BrightImage == [decodes |-> TRUE, pixels |-> <<<<255, 255, 255>>>>]

JunkImage == [decodes |-> FALSE, pixels |-> <<<<0, 0, 0>>>>]

SampleImages == {DarkImage, BrightImage, JunkImage}

\* Jimp.read(buffer) resolves
JimpReads(img) == img.decodes

\* sum over the pixels of r + g + b
RECURSIVE SumChannels(_)
SumChannels(px) ==
    IF px = <<>> THEN 0
    ELSE px[1][1] + px[1][2] + px[1][3] + SumChannels(Tail(px))

\* number of pixels with every channel below the cutoff
RECURSIVE CountBlack(_)
CountBlack(px) ==
    IF px = <<>> THEN 0
    ELSE (IF px[1][1] < BlackChannelCutoff /\ px[1][2] < BlackChannelCutoff
             /\ px[1][3] < BlackChannelCutoff THEN 1 ELSE 0)
         + CountBlack(Tail(px))

\* isBlackFrame(buffer) on a decodable payload: the mean over the pixels of
\* (r + g + b) / 3 is below 10, i.e. sum(r + g + b) < 10 * 3 * pixels
isBlackFrame(img) == SumChannels(img.pixels) < BlackAvgThreshold * 3 * Len(img.pixels)

\* status after the try { await Jimp.read } catch { status = "corrupt" }
StatusAfterRead(img) == IF JimpReads(img) THEN "ok" ELSE "corrupt"

\* status after if (isBlack) status = "black"
StatusAfterBlack(status, img) == IF isBlackFrame(img) THEN "black" ELSE status

\* blackRatio > 0.9 of analyzeImage, blackRatio = blackPixels / totalPixels
isMostlyBlack(img) == 10 * CountBlack(img.pixels) > 9 * Len(img.pixels)

\* mutant: the black test decides before the decode failure does
analyzeBlackFirst(img) ==
    IF isMostlyBlack(img) THEN "black"
    ELSE IF ~JimpReads(img) THEN "corrupt"
    ELSE "ok"

\* analyzeImage(buffer): "corrupt" when Jimp.read throws, "black" when
\* blackRatio > 0.9, else "ok"
analyzeImage(img) ==
    IF ~JimpReads(img) THEN "corrupt"
    ELSE IF isMostlyBlack(img) THEN "black"
    ELSE "ok"

(***************************************************************************)
(* POST /thumbnail, classifier variant (src/app.js lines 308..362).        *)
(***************************************************************************)
\* (feedId, streamId) headers as sent
StatusIds == {<<"f1", "s1">>, <<"f2", "s1">>}

\* X-Millicast-Timestamp as sent; 0 is an absent header
StatusTs == {1000}

\* stands for a timestamp header that holds no number: parseInt(ts, 10) is
\* NaN and new Date(NaN).toISOString() throws a RangeError
NotANumber == 0 - 1

IdleStatusReq ==
    [pc |-> "idle", variant |-> "", feedId |-> "", streamId |-> "", ts |-> 0,
     img |-> JunkImage, status |-> "ok", classified |-> FALSE,
     blackTested |-> FALSE, counted |-> "none", logKey |-> 0, entryTs |-> 0,
     logs |-> <<>>, resp |-> 0]

\* what is left of a handler's record once it has answered
Answered(r, code) ==
    [IdleStatusReq EXCEPT !.pc = "done", !.variant = r.variant, !.resp = code,
                          !.feedId = r.feedId, !.streamId = r.streamId,
                          !.status = r.status, !.classified = r.classified,
                          !.counted = r.counted]

\* metric labels { feedId, streamId }
StatusLabels(r) == <<r.feedId, r.streamId>>

\* const logKey = `logs/${date}.json`, date the day of new Date()
LogKey(clock) == Floor(clock, MsPerDay)

\* the if / else if chain over status that increments one counter
OkCounterAfter(c, labels, status) == IF status = "ok" THEN Inc(c, labels) ELSE c

BlackCounterAfter(c, labels, status) == IF status = "black" THEN Inc(c, labels) ELSE c

CorruptCounterAfter(c, labels, status) == IF status = "corrupt" THEN Inc(c, labels) ELSE c

\* The path of line 314 is built before the try of line 316: when
\* toISOString throws, the async handler rejects. Express 4 leaves the
\* rejection unhandled and the request is never answered; Express 5 passes
\* it to its error handler, which answers 500.
ClassifierReceive(i, ids, t, img) ==
    /\ subs' = subs + 1
    /\ IF t = NotANumber
       THEN \E handled \in BOOLEAN :
              reqs' = [reqs EXCEPT ![i] =
                  [IdleStatusReq EXCEPT !.pc = IF handled THEN "done" ELSE "unanswered",
                                        !.variant = "classifier",
                                        !.resp = IF handled THEN 500 ELSE 0]]
       ELSE reqs' = [reqs EXCEPT ![i] =
              [IdleStatusReq EXCEPT !.pc = "validating", !.variant = "classifier",
                                    !.feedId = OrElseStr(ids[1], "unknown"),
                                    !.streamId = OrElseStr(ids[2], "unknown"),
                                    !.ts = OrElseNum(t, now),
                                    !.img = img]]
    /\ UNCHANGED <<now, okCounter>>
    /\ UNCHANGED freezeVars
    /\ UNCHANGED statusVars

\* await Jimp.read(req.body) settles
Validated(i) ==
    /\ reqs[i].pc = "validating"
    /\ LET r == reqs[i]
           status == StatusAfterRead(r.img)
       IN reqs' = [reqs EXCEPT ![i] =
              IF status # "corrupt"
              THEN [r EXCEPT !.pc = "blackcheck", !.status = status]
              ELSE [r EXCEPT !.pc = "storing", !.status = status,
                             !.classified = TRUE]]
    /\ UNCHANGED <<now, subs, okCounter>>
    /\ UNCHANGED freezeVars
    /\ UNCHANGED statusVars

\* await isBlackFrame(req.body) settles (it rejects when its own Jimp.read
\* does, which the outer catch answers with 500)
BlackChecked(i) ==
    /\ reqs[i].pc = "blackcheck"
    /\ LET r == reqs[i]
       IN reqs' = [reqs EXCEPT ![i] =
              IF JimpReads(r.img)
              THEN [r EXCEPT !.pc = "storing", !.blackTested = TRUE,
                             !.status = StatusAfterBlack(r.status, r.img),
                             !.classified = TRUE]
              ELSE [r EXCEPT !.pc = "done", !.blackTested = TRUE, !.resp = 500]]
    /\ UNCHANGED <<now, subs, okCounter>>
    /\ UNCHANGED freezeVars
    /\ UNCHANGED statusVars

\* await s3.putObject of the thumbnail settles; on success the counter of the
\* status is incremented and logResult runs up to its await of getObject
Stored(i, stored) ==
    /\ reqs[i].pc = "storing"
    /\ LET r == reqs[i]
           labels == StatusLabels(r)
       IN IF stored
          THEN /\ okCounter' = OkCounterAfter(okCounter, labels, r.status)
               /\ blackCounter' = BlackCounterAfter(blackCounter, labels, r.status)
               /\ corruptCounter' = CorruptCounterAfter(corruptCounter, labels, r.status)
               /\ reqs' = [reqs EXCEPT ![i] =
                      [r EXCEPT !.pc = "logread", !.counted = r.status,
                                !.entryTs = now, !.logKey = LogKey(now)]]
          ELSE /\ reqs' = [reqs EXCEPT ![i] = Answered(r, 500)]
               /\ UNCHANGED <<okCounter, blackCounter, corruptCounter>>
    /\ UNCHANGED <<now, subs, logStore, logCalls, alerts, hook>>
    /\ UNCHANGED freezeVars

\* logResult: await s3.getObject settles. NoSuchKey leaves logs = []; any
\* other error is rethrown (500). The entry is pushed and putObject called.
LogRead(i, failed) ==
    /\ reqs[i].pc = "logread"
    /\ LET r == reqs[i]
           logs == IF Has(logStore, r.logKey) THEN logStore[r.logKey] ELSE <<>>
           entry == [ts |-> r.entryTs, feedId |-> r.feedId,
                     streamId |-> r.streamId, status |-> r.status]
       IN reqs' = [reqs EXCEPT ![i] =
              IF failed THEN Answered(r, 500)
              ELSE [r EXCEPT !.pc = "logwrite", !.logs = Append(logs, entry)]]
    /\ UNCHANGED <<now, subs, okCounter>>
    /\ UNCHANGED freezeVars
    /\ UNCHANGED statusVars

\* whether notifyPowerAutomate is called and has a webhook to POST to
Notifies(status, configured) == status \in {"black", "corrupt"} /\ configured

\* logResult: await s3.putObject of the log settles; logResult returns, and
\* the handler notifies (up to the await of fetch) or answers
LogWritten(i, stored) ==
    /\ reqs[i].pc = "logwrite"
    /\ LET r == reqs[i]
       IN IF stored
          THEN /\ logStore' = Put(logStore, r.logKey, r.logs)
               /\ logCalls' = logCalls + 1
               /\ IF Notifies(r.status, hook)
                  THEN /\ alerts' = alerts + 1
                       /\ reqs' = [reqs EXCEPT ![i] = [r EXCEPT !.pc = "notifying"]]
                  ELSE /\ alerts' = alerts
                       /\ reqs' = [reqs EXCEPT ![i] = Answered(r, 200)]
          ELSE /\ reqs' = [reqs EXCEPT ![i] = Answered(r, 500)]
               /\ UNCHANGED <<logStore, logCalls, alerts>>
    /\ UNCHANGED <<now, subs, okCounter, blackCounter, corruptCounter, hook>>
    /\ UNCHANGED freezeVars

\* notifyPowerAutomate: await fetch settles; a rejection is caught and logged
Notified(i, delivered) ==
    /\ reqs[i].pc = "notifying"
    /\ reqs' = [reqs EXCEPT ![i] = Answered(reqs[i], 200)]
    /\ UNCHANGED <<now, subs, okCounter>>
    /\ UNCHANGED freezeVars
    /\ UNCHANGED statusVars

ClassifierArrive ==
    \E i \in Free :
        /\ subs < MaxSubs
        /\ \A j \in Free : i <= j
        /\ \E ids \in StatusIds, t \in StatusTs, img \in SampleImages :
                ClassifierReceive(i, ids, t, img)

ReadSettles == \E i \in Slots : Validated(i)

BlackSettles == \E i \in Slots : BlackChecked(i)

StoreSettles == \E i \in Slots, stored \in BOOLEAN : Stored(i, stored)

LogReadSettles == \E i \in Slots, failed \in BOOLEAN : LogRead(i, failed)

LogWriteSettles == \E i \in Slots, stored \in BOOLEAN : LogWritten(i, stored)

FetchSettles == \E i \in Slots, delivered \in BOOLEAN : Notified(i, delivered)

InitStatus ==
    /\ now = 0
    /\ subs = 0
    /\ reqs = [i \in Slots |-> IdleStatusReq]
    /\ lastFrames = EmptyMap
    /\ freezeState = EmptyMap
    /\ freezeCounter = EmptyMap
    /\ freezeActive = EmptyMap
    /\ freezeDuration = EmptyMap
    /\ okCounter = EmptyMap
    /\ latestGauge = EmptyMap
    /\ trace = <<>>
    /\ blackCounter = EmptyMap
    /\ corruptCounter = EmptyMap
    /\ logStore = EmptyMap
    /\ logCalls = 0
    /\ alerts = 0
    /\ hook \in BOOLEAN

NextClassifier ==
    \/ ClassifierArrive
    \/ ReadSettles
    \/ BlackSettles
    \/ StoreSettles
    \/ LogReadSettles
    \/ LogWriteSettles
    \/ FetchSettles
    \/ Tick

SpecClassifier == InitStatus /\ [][NextClassifier]_vars

(***************************************************************************)
(* SpecLive: the classifier variant with clients that may send a timestamp *)
(* header that holds no number, under the assumption that every external   *)
(* call a handler awaits (image decode, storage, webhook) settles.         *)
(***************************************************************************)
ArriveLive ==
    \E i \in Free :
        /\ subs < MaxLiveSubs
        /\ \A j \in Free : i <= j
        /\ \E t \in StatusTs \cup {NotANumber}, img \in {BrightImage, JunkImage} :
                ClassifierReceive(i, <<"f1", "s1">>, t, img)

NextLive ==
    \/ ArriveLive
    \/ ReadSettles
    \/ BlackSettles
    \/ StoreSettles
    \/ LogReadSettles
    \/ LogWriteSettles
    \/ FetchSettles
    \/ Tick

\* every awaited call of every handler eventually resolves or rejects
CallsSettle ==
    \A i \in Slots :
        /\ WF_vars(Validated(i))
        /\ WF_vars(BlackChecked(i))
        /\ WF_vars(\E stored \in BOOLEAN : Stored(i, stored))
        /\ WF_vars(\E failed \in BOOLEAN : LogRead(i, failed))
        /\ WF_vars(\E stored \in BOOLEAN : LogWritten(i, stored))
        /\ WF_vars(\E delivered \in BOOLEAN : Notified(i, delivered))

SpecLive == InitStatus /\ [][NextLive]_vars /\ CallsSettle

(***************************************************************************)
(* POST /thumbnail, webhook variant (src/app.js lines 487..543).           *)
(***************************************************************************)
\* timestamp of the JSON body as sent; 0 stands for an absent timestamp, for
\* which new Date(timestamp).toISOString() throws a RangeError
WebhookTs == {0, 1000}

WebhookReceive(i, signed, hasThumbnail, ids, t, img) ==
    /\ subs' = subs + 1
    /\ reqs' = [reqs EXCEPT ![i] =
          IF ~signed
          THEN [IdleStatusReq EXCEPT !.pc = "done", !.variant = "webhook", !.resp = 401]
          ELSE IF ~hasThumbnail
          THEN \* Buffer.from(undefined, "base64") throws
               [IdleStatusReq EXCEPT !.pc = "done", !.variant = "webhook", !.resp = 500]
          ELSE [IdleStatusReq EXCEPT !.pc = "analyzing", !.variant = "webhook",
                                     !.feedId = ids[1], !.streamId = ids[2],
                                     !.ts = t, !.img = img]]
    /\ UNCHANGED <<now, okCounter>>
    /\ UNCHANGED freezeVars
    /\ UNCHANGED statusVars

\* await analyzeImage(buffer) settles: the counter of the status is
\* incremented, the key is built and putObject is called
Analyzed(i) ==
    /\ reqs[i].pc = "analyzing"
    /\ LET r == reqs[i]
           status == analyzeImage(r.img)
           labels == StatusLabels(r)
           counted == [r EXCEPT !.status = status, !.classified = TRUE,
                                !.blackTested = JimpReads(r.img),
                                !.counted = status]
       IN /\ okCounter' = OkCounterAfter(okCounter, labels, status)
          /\ blackCounter' = BlackCounterAfter(blackCounter, labels, status)
          /\ corruptCounter' = CorruptCounterAfter(corruptCounter, labels, status)
          /\ reqs' = [reqs EXCEPT ![i] =
                IF r.ts = 0 THEN Answered(counted, 500)
                ELSE [counted EXCEPT !.pc = "wstoring"]]
    /\ UNCHANGED <<now, subs, logStore, logCalls, alerts, hook>>
    /\ UNCHANGED freezeVars

\* await s3.putObject settles; a bad frame is notified when the URL is set
WebhookStored(i, stored) ==
    /\ reqs[i].pc = "wstoring"
    /\ LET r == reqs[i]
       IN IF stored /\ r.status # "ok" /\ hook
          THEN /\ alerts' = alerts + 1
               /\ reqs' = [reqs EXCEPT ![i] = [r EXCEPT !.pc = "wnotifying"]]
          ELSE /\ alerts' = alerts
               /\ reqs' = [reqs EXCEPT ![i] = Answered(r, IF stored THEN 200 ELSE 500)]
    /\ UNCHANGED <<now, subs, okCounter, blackCounter, corruptCounter,
                   logStore, logCalls, hook>>
    /\ UNCHANGED freezeVars

\* await fetch settles; a rejection reaches the handler's catch
WebhookNotified(i, delivered) ==
    /\ reqs[i].pc = "wnotifying"
    /\ reqs' = [reqs EXCEPT ![i] = Answered(reqs[i], IF delivered THEN 200 ELSE 500)]
    /\ UNCHANGED <<now, subs, okCounter>>
    /\ UNCHANGED freezeVars
    /\ UNCHANGED statusVars

WebhookArrive ==
    \E i \in Free :
        /\ subs < MaxSubs
        /\ \A j \in Free : i <= j
        /\ \E signed \in BOOLEAN, hasThumbnail \in BOOLEAN, ids \in StatusIds,
              t \in WebhookTs, img \in SampleImages :
                WebhookReceive(i, signed, hasThumbnail, ids, t, img)

AnalyzeSettles == \E i \in Slots : Analyzed(i)

WebhookStoreSettles == \E i \in Slots, stored \in BOOLEAN : WebhookStored(i, stored)

WebhookFetchSettles == \E i \in Slots, delivered \in BOOLEAN : WebhookNotified(i, delivered)

NextWebhook ==
    \/ WebhookArrive
    \/ AnalyzeSettles
    \/ WebhookStoreSettles
    \/ WebhookFetchSettles
    \/ Tick

SpecWebhook == InitStatus /\ [][NextWebhook]_vars

(***************************************************************************)
(* SpecImage: one request with any payload of Images, followed through    *)
(* the classification steps of either variant.                             *)
(***************************************************************************)
ImageArrive ==
    /\ \A j \in Slots : reqs[j].pc = "idle"
    /\ \E img \in Images :
        \/ ClassifierReceive(1, <<"f1", "s1">>, 1000, img)
        \/ WebhookReceive(1, TRUE, TRUE, <<"f1", "s1">>, 1000, img)

NextImage == ImageArrive \/ ReadSettles \/ BlackSettles \/ AnalyzeSettles

SpecImage == InitStatus /\ [][NextImage]_vars

(***************************************************************************)
(* Properties of the classifier and webhook variants.                      *)
(***************************************************************************)
\* the black test of the variant that handles r
BlackTest(r) ==
    IF r.variant = "classifier" THEN isBlackFrame(r.img) ELSE isMostlyBlack(r.img)

\* C7 as stated: the stored daily log holds one entry for every logResult
\* call that has returned successfully, whatever the interleaving of the calls.
C7_NoLogEntryLost ==
    IF Has(logStore, LogKey(now))
    THEN Len(logStore[LogKey(now)]) = logCalls
    ELSE logCalls = 0

\* C8: classification yields one of ok, black, corrupt with precedence
\* corrupt > black > ok: corrupt exactly when the payload does not decode,
\* whatever its pixels; the black test runs only on a decoded payload; black
\* exactly when it decodes and the test is true; ok exactly when it decodes
\* and the test is false.
C8_Precedence ==
    \A i \in Slots :
        LET r == reqs[i]
        IN /\ r.status \in {"ok", "black", "corrupt"}
           /\ r.blackTested => JimpReads(r.img)
           /\ r.pc \in {"storing", "wstoring", "done"} => r.classified
           /\ r.classified =>
                /\ r.status = "corrupt" <=> ~JimpReads(r.img)
                /\ r.status = "black" <=> (JimpReads(r.img) /\ BlackTest(r))
                /\ r.status = "ok" <=> (JimpReads(r.img) /\ ~BlackTest(r))
                /\ r.blackTested <=> JimpReads(r.img)

\* C8 witness: bytes that do not decode and whose content is dark were
\* classified corrupt without the black test
C8_Witness ==
    \E i \in Slots :
        /\ reqs[i].classified
        /\ ~JimpReads(reqs[i].img)
        /\ isBlackFrame(reqs[i].img) /\ isMostlyBlack(reqs[i].img)
        /\ reqs[i].status = "corrupt"
        /\ ~reqs[i].blackTested

\* C9 as stated: every submission that was classified has incremented the
\* counter of its status, and only that one, by the time it is answered.
C9_OneCounterPerClassified ==
    \A i \in Slots :
        (reqs[i].pc = "done" /\ reqs[i].classified) =>
            reqs[i].counted = reqs[i].status

\* C16 as stated: the steps of one submission run in the order classification,
\* metrics recording, archive write, alert dispatch: while the archive write is
\* awaited the counter of the submission's status has been recorded, and a
\* notification is awaited only for an unhealthy submission (its archive write
\* is then behind it).
C16_MetricsBeforeArchive ==
    \A i \in Slots :
        /\ reqs[i].pc \in {"storing", "wstoring"} =>
                /\ reqs[i].classified
                /\ reqs[i].counted = reqs[i].status
        /\ reqs[i].pc \in {"notifying", "wnotifying"} =>
                reqs[i].status \in {"black", "corrupt"}

\* C17 as stated: the archive key of a submission is
\* {feedId}/{streamId}/{isoTimestamp}.jpg, feedId first, a function of the
\* submission's feedId, streamId and timestamp alone.
C17_ArchiveKeyFeedFirst ==
    \A i \in Slots :
        reqs[i].pc \in {"hashing", "uploading"} =>
            reqs[i].key = reqs[i].feedId \o "/" \o reqs[i].streamId \o "/"
                            \o ToISOString(reqs[i].timestamp) \o ".jpg"

(***************************************************************************)
(* POST /thumbnail, quality variant (src/unnamed/part_000 lines 45..95).   *)
(* A JavaScript value is a record of its type and, for a number or a       *)
(* decimal string, the integer it denotes.                                 *)
(***************************************************************************)
Num(n) == [t |-> "number", v |-> n]

\* the decimal string of n
Str(n) == [t |-> "string", v |-> n]

\* a string that holds no number
Text == [t |-> "text", v |-> 0]

Null == [t |-> "null", v |-> 0]

Undefined == [t |-> "undefined", v |-> 0]

NaN == [t |-> "nan", v |-> 0]

\* parseInt(x)
ParseInt(x) == IF x.t \in {"number", "string"} THEN Num(x.v) ELSE NaN

\* x || null
OrNull(x) ==
    IF x.t \in {"null", "undefined", "nan"} \/ (x.t = "number" /\ x.v = 0)
    THEN Null ELSE x

\* width and height as sent: in the JSON body, or (as text) in the
\* X-Thumbnail-Width / X-Thumbnail-Height headers
Dims == {Num(854), Num(640), Num(426), Num(480), Num(360), Num(240),
         Str(854), Str(480), Text, Null, Undefined}

\* mutant: the height is not compared
mapResolutionByWidth(width, height) ==
    IF width = Num(854) THEN "high"
    ELSE IF width = Num(640) THEN "med"
    ELSE IF width = Num(426) THEN "low"
    ELSE "unknown"

\* mapResolutionToQuality(width, height), with === on either value
mapResolutionToQuality(width, height) ==
    IF width = Num(854) /\ height = Num(480) THEN "high"
    ELSE IF width = Num(640) /\ height = Num(360) THEN "med"
    ELSE IF width = Num(426) /\ height = Num(240) THEN "low"
    ELSE "unknown"

\* const key = `${feedId}/${streamId}/${quality}/${...toISOString()}.jpg`
QualityKey(feedId, streamId, quality, timestamp) ==
    feedId \o "/" \o streamId \o "/" \o quality \o "/"
        \o ToISOString(timestamp) \o ".jpg"

\* metric labels { feedId, streamId, quality }
QualityLabels(r) == <<r.feedId, r.streamId, r.quality>>

\* (feedId, streamId) of the JSON body and of the headers; "" is an absent id
BodyIds == {<<"f1", "s1">>, <<"", "">>}

HeaderIds == {<<"f2", "s2">>, <<"", "">>}

\* timestamp of the JSON body and of the header; 0 is an absent timestamp
BodyTs == {0, 1000}

HeaderTs == {0, 2000}

IdleQualityReq ==
    [pc |-> "idle", feedId |-> "", streamId |-> "", timestamp |-> 0,
     width |-> Undefined, height |-> Undefined, quality |-> "", key |-> "",
     resp |-> 0]

\* width / height after the extraction of either branch
DimOf(ctype, x) == IF ctype = "json" THEN x ELSE OrNull(ParseInt(x))

\* from the request to the await of s3.putObject
QualityReceive(i, ctype, hasThumbnail, body, hdr, bodyT, hdrT, w, h) ==
    /\ subs' = subs + 1
    /\ LET feedId == IF ctype = "json"
                     THEN OrElseStr(body[1], OrElseStr(hdr[1], "unknown"))
                     ELSE OrElseStr(hdr[1], "testfeed")
           streamId == IF ctype = "json"
                       THEN OrElseStr(body[2], OrElseStr(hdr[2], "unknown"))
                       ELSE OrElseStr(hdr[2], "teststream")
           timestamp == IF ctype = "json"
                        THEN OrElseNum(bodyT, OrElseNum(hdrT, now))
                        ELSE OrElseNum(hdrT, now)
           width == DimOf(ctype, w)
           height == DimOf(ctype, h)
           quality == mapResolutionToQuality(width, height)
       IN IF Rejected(ctype, hasThumbnail)
          THEN reqs' = [reqs EXCEPT ![i] =
                   [IdleQualityReq EXCEPT !.pc = "done", !.resp = 400]]
          ELSE reqs' = [reqs EXCEPT ![i] =
                   [IdleQualityReq EXCEPT
                        !.pc = "quploading", !.feedId = feedId,
                        !.streamId = streamId, !.timestamp = timestamp,
                        !.width = width, !.height = height,
                        !.quality = quality,
                        !.key = QualityKey(feedId, streamId, quality, timestamp)]]
    /\ UNCHANGED <<now, okCounter>>
    /\ UNCHANGED freezeVars
    /\ UNCHANGED statusVars

\* await s3.putObject settles: okCounter.inc and the response, or the catch
QualityUploaded(i, stored) ==
    /\ reqs[i].pc = "quploading"
    /\ LET r == reqs[i]
       IN IF stored
          THEN /\ okCounter' = Inc(okCounter, QualityLabels(r))
               /\ reqs' = [reqs EXCEPT ![i] =
                      [IdleQualityReq EXCEPT !.pc = "done", !.resp = 200]]
          ELSE /\ okCounter' = okCounter
               /\ reqs' = [reqs EXCEPT ![i] =
                      [IdleQualityReq EXCEPT !.pc = "done", !.resp = 500]]
    /\ UNCHANGED <<now, subs>>
    /\ UNCHANGED freezeVars
    /\ UNCHANGED statusVars

\* SpecQuality: a client that submits one request after the other
QualityArrive ==
    /\ subs < MaxQualitySubs
    /\ Free = Slots
    /\ \E ctype \in CTypes, hasThumbnail \in BOOLEAN, body \in BodyIds,
          hdr \in HeaderIds, bodyT \in BodyTs, hdrT \in HeaderTs,
          w \in Dims, h \in Dims :
            QualityReceive(1, ctype, hasThumbnail, body, hdr, bodyT, hdrT, w, h)

QualityStoreSettles == \E i \in Slots, stored \in BOOLEAN : QualityUploaded(i, stored)

InitQuality ==
    /\ now = 0
    /\ subs = 0
    /\ reqs = [i \in Slots |-> IdleQualityReq]
    /\ lastFrames = EmptyMap
    /\ freezeState = EmptyMap
    /\ freezeCounter = EmptyMap
    /\ freezeActive = EmptyMap
    /\ freezeDuration = EmptyMap
    /\ okCounter = EmptyMap
    /\ latestGauge = EmptyMap
    /\ trace = <<>>
    /\ blackCounter = EmptyMap
    /\ corruptCounter = EmptyMap
    /\ logStore = EmptyMap
    /\ logCalls = 0
    /\ alerts = 0
    /\ hook = FALSE

NextQuality == QualityArrive \/ QualityStoreSettles \/ Tick

SpecQuality == InitQuality /\ [][NextQuality]_vars

\* x is the number n
IsNumber(x, n) == x.t = "number" /\ x.v = n

\* C18: the quality of a submission is high exactly for 854x480, med exactly
\* for 640x360, low exactly for 426x240, and unknown for every other pair of
\* width and height, null and absent values included; it depends on the pair
\* alone.
C18_QualityTable ==
    \A i \in Slots :
        reqs[i].pc = "quploading" =>
            LET w == reqs[i].width
                h == reqs[i].height
                q == reqs[i].quality
            IN /\ q \in {"high", "med", "low", "unknown"}
               /\ q = "high" <=> (IsNumber(w, 854) /\ IsNumber(h, 480))
               /\ q = "med" <=> (IsNumber(w, 640) /\ IsNumber(h, 360))
               /\ q = "low" <=> (IsNumber(w, 426) /\ IsNumber(h, 240))

\* C18 witness: a submission of width 854 and a height that is not 480 was
\* given the quality unknown
C18_Witness ==
    \E i \in Slots :
        /\ reqs[i].pc = "quploading"
        /\ IsNumber(reqs[i].width, 854)
        /\ reqs[i].height \in {Num(360), Null}
        /\ reqs[i].quality = "unknown"

\* the earlier calls of the freeze detector made for the pair of call n
SamePairBefore(n) ==
    {k \in 1..(n - 1) : /\ trace[k].streamId = trace[n].streamId
                        /\ trace[k].feedId = trace[n].feedId}

\* C19 as stated: freeze state is per (streamId, feedId) pair, also for ids
\* that contain ":": a call compares against the fingerprint left by the
\* latest earlier call for the same pair, and the first call for a pair finds
\* no fingerprint and reports no freeze, whatever was submitted for other pairs.
C19_StatePerPair ==
    \A n \in 1..Len(trace) :
        IF SamePairBefore(n) = {}
        THEN trace[n].prevHash = "" /\ ~trace[n].isFreeze
        ELSE LET k == CHOOSE x \in SamePairBefore(n) : \A y \in SamePairBefore(n) : y <= x
             IN /\ trace[n].prevHash = trace[k].hash
                /\ trace[n].isFreeze <=> trace[n].hash = trace[k].hash

\* C20 as stated: a key with frozenSince has a lastFingerprint; freeze_active
\* only takes the values 0 and 1; a freeze_active gauge is 1 exactly when
\* frozenSince is set for its key; and a key with frozenSince has a gauge at 1.
C20_GaugeMatchesFrozenSince ==
    /\ \A k \in DOMAIN freezeState : Has(lastFrames, k)
    /\ \A l \in DOMAIN freezeActive :
            /\ freezeActive[l] \in {0, 1}
            /\ freezeActive[l] = 1 <=> Has(freezeState, LastKey(l[1], l[2]))
    /\ \A k \in DOMAIN freezeState :
            \E l \in DOMAIN freezeActive :
                LastKey(l[1], l[2]) = k /\ freezeActive[l] = 1

\* C21 as stated: the FreezeState updates of the submissions in flight for one
\* key take effect in the order the submissions arrived: the handler whose
\* detection block runs is the earliest arrival among those awaiting their
\* hash, so it compares against, and leaves, the fingerprints of arrival order.
C21_UpdatesInArrivalOrder ==
    [][\A i \in Slots : Detecting(i) => trace[1] = i]_vars

\* C22 as stated: provided every external call settles, every request that
\* a handler has taken up is eventually answered, with one response that is
\* a success, a 400 or a 500.
C22_EveryRequestAnswered ==
    \A i \in Slots :
        (reqs[i].pc \notin {"idle", "done"})
            ~> (reqs[i].pc = "done" /\ reqs[i].resp \in {200, 400, 500})

====
